---- MODULE Spec2Model ----
(***************************************************************************)
(* The tenant endpoint of pency, src/pages/api/tenant/[slug].ts: one       *)
(* asynchronous Next.js API handler that dispatches on the HTTP method and *)
(* talks to the tenant store (api.fetch / api.create / api.update) and to  *)
(* the session service (sessionApi.verify).                                *)
(*                                                                         *)
(* A request is handled in synchronous segments separated by the awaits of *)
(* the promise chains; every segment is one action, every settlement of a  *)
(* downstream promise is one action of the environment.                    *)
(***************************************************************************)
EXTENDS Integers, FiniteSets, Sequences, TLC

VARIABLES
  env,      \* process.env.SECRET, fixed for the life of the process
  clock,    \* the wall clock read by dates.now / dates.oneWeekFromNow
  pc,       \* position of the handler in its promise chain
  req,      \* the request being handled
  res,      \* the NextApiResponse of that request
  svc,      \* per downstream operation: calls made, argument, settlement
  local,    \* the handler's locals and what its callbacks received
  ran,      \* the callbacks of the chain that have run for this request
  outcome   \* the promise returned by the handler: pending, returned, threw

vars == <<env, clock, pc, req, res, svc, local, ran, outcome>>

----------------------------------------------------------------------------
(* JavaScript values.  undefined, strings and numbers are kept apart so    *)
(* that strict comparison (!==) and truthiness (!x) are what the code      *)
(* computes.                                                               *)

Undef == [undef |-> TRUE]
Str(s) == [str |-> s]
Num(n) == [num |-> n]

\* !!v
Truthy(v) == v \notin {Undef, Str(""), Num(0)}

\* a != b, the loose comparison of JavaScript, on the values of the model
LooseNeq(a, b) ==
  /\ a # b
  /\ {a, b} # {Num(1), Str("1")}
  /\ {a, b} # {Num(0), Str("")}

----------------------------------------------------------------------------
(* Bounds of the model. *)

MaxClock == 2

(* Seven days, in the milliseconds of dates.oneWeekFromNow. *)
Week == 604800000

----------------------------------------------------------------------------
(* The inputs: requests, the configured secret, what the services answer. *)

EnvSecrets == {Undef, Str(""), Str("s3cr3t")}
SecretVals == {Undef, Str(""), Str("s3cr3t"), Str("wrong")}
SlugVals == {Undef, Str(""), Str("shop")}
EmailVals == {Undef, Str(""), Str("a@b.c")}
PasswordVals == {Undef, Str("pw")}
IdVals == {Undef, Str(""), Num(0), Num(1), Str("1"), Str("u1")}
UidVals == {Undef, Str("1"), Str("u1")}
TokenVals == {Undef, Str("Bearer t")}
TenantVals ==
  {Undef} \cup
  {[id |-> i, slug |-> s, title |-> Str("Shop")] : i \in IdVals, s \in {Undef, Str("shop")}}
StoredTenants == {[id |-> Str("u1"), slug |-> Str("shop"), title |-> Str("Shop"), mercadopago |-> Str("tok")]}
StoreErrors == {[status |-> Num(404), statusText |-> Str("Not Found")],
                [status |-> Num(500), statusText |-> Str("Internal Server Error")]}

NoBody == [email |-> Undef, password |-> Undef, secret |-> Undef, tenant |-> Undef]
NoHeaders == [authorization |-> Undef]

GetRequests ==
  {[method |-> "GET", query |-> [slug |-> Str("shop"), secret |-> k],
    body |-> NoBody, headers |-> NoHeaders] : k \in SecretVals}

PostRequests ==
  {[method |-> "POST", query |-> [slug |-> s, secret |-> Undef],
    body |-> [email |-> e, password |-> p, secret |-> k, tenant |-> Undef],
    headers |-> NoHeaders] :
      s \in SlugVals, e \in EmailVals, p \in PasswordVals, k \in SecretVals}

PatchRequests ==
  {[method |-> "PATCH", query |-> [slug |-> Str("shop"), secret |-> Undef],
    body |-> [email |-> Undef, password |-> Undef, secret |-> Undef, tenant |-> t],
    headers |-> [authorization |-> a]] : t \in TenantVals, a \in TokenVals}

OtherRequests ==
  {[method |-> m, query |-> [slug |-> Str("shop"), secret |-> Str("s3cr3t")],
    body |-> NoBody, headers |-> NoHeaders] : m \in {"DELETE", "PUT"}}

Requests == GetRequests \cup PostRequests \cup PatchRequests \cup OtherRequests

----------------------------------------------------------------------------
(* The response object. *)

NewResponse == [statusCode |-> Num(200), body |-> Undef, ends |-> 0, sent |-> 0]

\* res.status(code)
ResStatus(r, code) == [r EXCEPT !.statusCode = code]

\* The status codes Node accepts when the head is written.
ValidStatus(code) == DOMAIN code = {"num"} /\ code.num \in 100..999

\* res.end(body) / res.json(body): the head is written with res.statusCode,
\* which throws on a code outside 100..999 and then sends nothing.
ResEnd(r, body) ==
  IF ValidStatus(r.statusCode)
    THEN [r EXCEPT !.body = body, !.ends = @ + 1, !.sent = @ + 1]
    ELSE [r EXCEPT !.ends = @ + 1]

EndThrows(r) == ~ValidStatus(r.statusCode)

----------------------------------------------------------------------------
(* Downstream operations. *)

Services == {"fetch", "create", "update", "verify"}

NoCall == [n |-> 0, arg |-> Undef, state |-> "none", value |-> Undef]

Call(s, name, arg) ==
  [s EXCEPT ![name] = [n |-> @.n + 1, arg |-> arg, state |-> "pending", value |-> Undef]]

Settle(s, name, state, value) ==
  [s EXCEPT ![name].state = state, ![name].value = value]

NoLocal ==
  [tenant |-> Undef, createdAt |-> Undef, valid |-> "unchecked", uid |-> Undef,
   caught |-> Undef]

Init ==
  /\ env \in EnvSecrets
  /\ clock = 0
  /\ pc = "idle"
  /\ req = [method |-> "NONE", query |-> [slug |-> Undef, secret |-> Undef],
            body |-> NoBody, headers |-> NoHeaders]
  /\ res = NewResponse
  /\ svc = [s \in Services |-> NoCall]
  /\ local = NoLocal
  /\ ran = {}
  /\ outcome = "none"

\* The clock advances on its own, also between two reads of one handler.
Tick ==
  /\ clock < MaxClock
  /\ clock' = clock + 1
  /\ UNCHANGED <<env, pc, req, res, svc, local, ran, outcome>>

\* Next.js invokes the handler with a fresh request and response.
Receive ==
  /\ pc \in {"idle", "done"}
  /\ \E r \in Requests : req' = r
  /\ pc' = "handle"
  /\ res' = NewResponse
  /\ svc' = [s \in Services |-> NoCall]
  /\ local' = NoLocal
  /\ ran' = {}
  /\ outcome' = "pending"
  /\ UNCHANGED <<env, clock>>

\* return res.status(304).end()
Reject304 ==
  /\ res' = ResEnd(ResStatus(res, Num(304)), Undef)
  /\ pc' = "done"
  /\ outcome' = "returned"

----------------------------------------------------------------------------
(* GET: lines 38-59. *)

\* The check that only asks for the secret to be present.
SecretMissing(secret, configured) == ~Truthy(secret)

\* secret !== process.env.SECRET
SecretMismatch(secret, configured) == secret # configured

\* schemas.client.fetch.cast(tenant): the client view of a stored tenant,
\* without the fields that stay on the server.
ClientFetchCast(t) ==
  [id |-> t.id, slug |-> t.slug, title |-> t.title, view |-> "client"]

HandleGet ==
  /\ pc = "handle"
  /\ req.method = "GET"
  /\ IF SecretMismatch(req.query.secret, env)
       THEN /\ Reject304
            /\ UNCHANGED <<svc>>
       ELSE /\ svc' = Call(svc, "fetch", req.query.slug)
            /\ pc' = "awaitFetch"
            /\ UNCHANGED <<res, outcome>>
  /\ UNCHANGED <<env, clock, req, local, ran>>

\* api.fetch(slug) resolves with the stored tenant.
FetchResolves ==
  /\ pc = "awaitFetch"
  /\ \E t \in StoredTenants : svc' = Settle(svc, "fetch", "fulfilled", t)
  /\ pc' = "getThen"
  /\ UNCHANGED <<env, clock, req, res, local, ran, outcome>>

\* api.fetch(slug) rejects with {status, statusText}.
FetchRejects ==
  /\ pc = "awaitFetch"
  /\ \E e \in StoreErrors :
       /\ svc' = Settle(svc, "fetch", "rejected", e)
       /\ local' = [local EXCEPT !.caught = e]
  /\ pc' = "getCatch"
  /\ UNCHANGED <<env, clock, req, res, ran, outcome>>

\* .then((tenant) => res.status(200).json(schemas.client.fetch.cast(tenant)))
\* res.status(200) is evaluated before the argument; a cast that throws
\* rejects the promise that .catch is chained on.
GetThen ==
  /\ pc = "getThen"
  /\ ran' = ran \cup {"getThen"}
  /\ \E castOk \in BOOLEAN :
       IF castOk
         THEN /\ res' = ResEnd(ResStatus(res, Num(200)), ClientFetchCast(svc["fetch"].value))
              /\ pc' = "done"
              /\ outcome' = "returned"
              /\ UNCHANGED local
         ELSE /\ res' = ResStatus(res, Num(200))
              /\ local' = [local EXCEPT !.caught = [error |-> "TypeError"]]
              /\ pc' = "getCatch"
              /\ UNCHANGED outcome
  /\ UNCHANGED <<env, clock, req, svc>>

\* The properties the handler destructures from what it caught.
Field(e, f) == IF f \in DOMAIN e THEN e[f] ELSE Undef

\* .catch(({status, statusText}) => res.status(status).end(statusText))
StoreFailure(r, e) == ResEnd(ResStatus(r, Field(e, "status")), Field(e, "statusText"))

GetCatch ==
  /\ pc = "getCatch"
  /\ ran' = ran \cup {"getCatch"}
  /\ res' = StoreFailure(res, local.caught)
  /\ pc' = "done"
  /\ outcome' = IF EndThrows(ResStatus(res, Field(local.caught, "status")))
                  THEN "threw" ELSE "returned"
  /\ UNCHANGED <<env, clock, req, svc, local>>

----------------------------------------------------------------------------
(* POST: lines 62-103. *)

\* The check without the presence test of the secret.
PostRejectedNoSecretTest(email, password, slug, secret, configured) ==
  \/ ~Truthy(email)
  \/ ~Truthy(password)
  \/ ~Truthy(slug)
  \/ secret # configured

\* !email || !password || !slug || !secret || secret !== process.env.SECRET
PostRejected(email, password, slug, secret, configured) ==
  \/ ~Truthy(email)
  \/ ~Truthy(password)
  \/ ~Truthy(slug)
  \/ ~Truthy(secret)
  \/ secret # configured

\* dates.now: the current time.
DatesNow(t) == t

\* dates.oneWeekFromNow: seven days after the current time.
DatesOneWeekFromNow(t) == t + Week

\* schemas.server.create.cast(draft): the draft with the schema's defaults.
ServerCreateCast(d) ==
  [slug |-> d.slug, createdAt |-> d.createdAt, tier |-> d.tier,
   tierUntil |-> d.tierUntil, view |-> "server"]

\* The object literal of lines 77-86, its properties evaluated in order:
\* createdAt when dates.now is read, tierUntil when dates.oneWeekFromNow is.
Draft(slug, createdAt, now) ==
  [slug |-> slug, createdAt |-> createdAt, tier |-> "commercial",
   tierUntil |-> DatesOneWeekFromNow(now)]

\* Lines 62-81: the presence check, then the first read of the clock.
HandlePost ==
  /\ pc = "handle"
  /\ req.method = "POST"
  /\ IF PostRejected(req.body.email, req.body.password, req.query.slug,
                     req.body.secret, env)
       THEN /\ Reject304
            /\ UNCHANGED local
       ELSE /\ local' = [local EXCEPT !.createdAt = DatesNow(clock)]
            /\ pc' = "postStamp"
            /\ UNCHANGED <<res, outcome>>
  /\ UNCHANGED <<env, clock, req, svc, ran>>

\* Lines 83-102: the second read of the clock, the cast, the validation of
\* {id: "fake-id", ...tenant} against the server fetch schema, and the call.
PostStamp ==
  /\ pc = "postStamp"
  /\ LET tenant == ServerCreateCast(Draft(req.query.slug, local.createdAt, clock))
     IN \E isValid \in BOOLEAN :
          IF ~isValid
            THEN /\ Reject304
                 /\ local' = [local EXCEPT !.tenant = tenant, !.valid = "invalid"]
                 /\ UNCHANGED svc
            ELSE /\ svc' = Call(svc, "create",
                                [email |-> req.body.email, password |-> req.body.password,
                                 tenant |-> tenant])
                 /\ local' = [local EXCEPT !.tenant = tenant, !.valid = "valid"]
                 /\ pc' = "awaitCreate"
                 /\ UNCHANGED <<res, outcome>>
  /\ UNCHANGED <<env, clock, req, ran>>

\* api.create(email, password, tenant) resolves.
CreateResolves ==
  /\ pc = "awaitCreate"
  /\ svc' = Settle(svc, "create", "fulfilled", Undef)
  /\ pc' = "postThen"
  /\ UNCHANGED <<env, clock, req, res, local, ran, outcome>>

\* api.create(email, password, tenant) rejects with {status, statusText}.
CreateRejects ==
  /\ pc = "awaitCreate"
  /\ \E e \in StoreErrors :
       /\ svc' = Settle(svc, "create", "rejected", e)
       /\ local' = [local EXCEPT !.caught = e]
  /\ pc' = "postCatch"
  /\ UNCHANGED <<env, clock, req, res, ran, outcome>>

\* .then(() => res.status(200).json({success: true}))
PostThen ==
  /\ pc = "postThen"
  /\ ran' = ran \cup {"postThen"}
  /\ res' = ResEnd(ResStatus(res, Num(200)), [success |-> TRUE])
  /\ pc' = "done"
  /\ outcome' = "returned"
  /\ UNCHANGED <<env, clock, req, svc, local>>

\* .catch(({status, statusText}) => res.status(status).end(statusText))
PostCatch ==
  /\ pc = "postCatch"
  /\ ran' = ran \cup {"postCatch"}
  /\ res' = StoreFailure(res, local.caught)
  /\ pc' = "done"
  /\ outcome' = IF EndThrows(ResStatus(res, Field(local.caught, "status")))
                  THEN "threw" ELSE "returned"
  /\ UNCHANGED <<env, clock, req, svc, local>>

----------------------------------------------------------------------------
(* PATCH: lines 106-144. *)

\* !tenant || !tenant?.id || !tenant?.slug
PatchRejected(tenant) ==
  \/ tenant = Undef
  \/ ~Truthy(tenant.id)
  \/ ~Truthy(tenant.slug)

\* const {id, ...rest} = tenant
Rest(tenant) == [f \in DOMAIN tenant \ {"id"} |-> tenant[f]]

\* schemas.server.update.cast(rest)
ServerUpdateCast(rest) == [slug |-> rest.slug, title |-> rest.title, view |-> "server"]

\* uid != id, the comparison that coerces its operands.
NotOwnerLoose(uid, id) == LooseNeq(uid, id)

\* uid !== id
NotOwner(uid, id) == uid # id

HandlePatch ==
  /\ pc = "handle"
  /\ req.method = "PATCH"
  /\ IF PatchRejected(req.body.tenant)
       THEN /\ Reject304
            /\ UNCHANGED svc
       ELSE /\ svc' = Call(svc, "verify", req.headers.authorization)
            /\ pc' = "awaitVerify"
            /\ UNCHANGED <<res, outcome>>
  /\ UNCHANGED <<env, clock, req, local, ran>>

\* sessionApi.verify(token) resolves with the user of the session.
VerifyResolves ==
  /\ pc = "awaitVerify"
  /\ \E uid \in UidVals :
       /\ svc' = Settle(svc, "verify", "fulfilled", [uid |-> uid])
       /\ local' = [local EXCEPT !.uid = uid]
  /\ pc' = "verifyThen"
  /\ UNCHANGED <<env, clock, req, res, ran, outcome>>

\* sessionApi.verify(token) rejects.
VerifyRejects ==
  /\ pc = "awaitVerify"
  /\ svc' = Settle(svc, "verify", "rejected", [error |-> "auth/id-token-expired"])
  /\ local' = [local EXCEPT !.caught = [error |-> "auth/id-token-expired"]]
  /\ pc' = "verifyCatch"
  /\ UNCHANGED <<env, clock, req, res, ran, outcome>>

\* Lines 127-140, the callback of verify's .then: the ownership check, then
\* the cast of the patch, evaluated before api.update is called; a cast that
\* throws rejects the promise that line 142 catches.
VerifyThen ==
  /\ pc = "verifyThen"
  /\ ran' = ran \cup {"verifyThen"}
  /\ IF NotOwner(local.uid, req.body.tenant.id)
       THEN /\ res' = ResEnd(ResStatus(res, Num(403)), Undef)
            /\ pc' = "done"
            /\ outcome' = "returned"
            /\ UNCHANGED <<svc, local>>
       ELSE \E castOk \in BOOLEAN :
              IF castOk
                THEN /\ svc' = Call(svc, "update",
                                    [id |-> req.body.tenant.id,
                                     patch |-> ServerUpdateCast(Rest(req.body.tenant))])
                     /\ pc' = "awaitUpdate"
                     /\ UNCHANGED <<res, local, outcome>>
                ELSE /\ local' = [local EXCEPT !.caught = [error |-> "TypeError"]]
                     /\ pc' = "verifyCatch"
                     /\ UNCHANGED <<res, svc, outcome>>
  /\ UNCHANGED <<env, clock, req>>

\* api.update(id, patch) resolves.
UpdateResolves ==
  /\ pc = "awaitUpdate"
  /\ svc' = Settle(svc, "update", "fulfilled", Undef)
  /\ pc' = "updateThen"
  /\ UNCHANGED <<env, clock, req, res, local, ran, outcome>>

\* api.update(id, patch) rejects, whatever the cause.
UpdateRejects ==
  /\ pc = "awaitUpdate"
  /\ \E e \in StoreErrors \cup {[error |-> "unavailable"]} :
       /\ svc' = Settle(svc, "update", "rejected", e)
       /\ local' = [local EXCEPT !.caught = e]
  /\ pc' = "updateCatch"
  /\ UNCHANGED <<env, clock, req, res, ran, outcome>>

\* The 200 answer that carries what was sent to the store.
UpdatedBodyPatch(tenant, patch) == patch

\* The body of the 200 answer: the tenant of the request.
UpdatedBody(tenant, patch) == tenant

\* .then(() => res.status(200).json(tenant))
UpdateThen ==
  /\ pc = "updateThen"
  /\ ran' = ran \cup {"updateThen"}
  /\ res' = ResEnd(ResStatus(res, Num(200)),
                   UpdatedBody(req.body.tenant, svc["update"].arg.patch))
  /\ pc' = "done"
  /\ outcome' = "returned"
  /\ UNCHANGED <<env, clock, req, svc, local>>

\* res.status(400).end("Hubo un error actualizando la tienda")
UpdateFailed(r) == ResEnd(ResStatus(r, Num(400)), Str("Hubo un error actualizando la tienda"))

\* .catch(() => res.status(400).end(...)) of line 138
UpdateCatch ==
  /\ pc = "updateCatch"
  /\ ran' = ran \cup {"updateCatch"}
  /\ res' = UpdateFailed(res)
  /\ pc' = "done"
  /\ outcome' = "returned"
  /\ UNCHANGED <<env, clock, req, svc, local>>

\* The answer of the ownership check given for an expired session.
SessionExpiredAsForbidden(r) == ResEnd(ResStatus(r, Num(403)), Undef)

\* res.status(401).end("La sesión expiró, ...")
SessionExpired(r) ==
  ResEnd(ResStatus(r, Num(401)),
         Str("La sesión expiró, volvé a iniciar sesión para continuar"))

\* .catch(() => res.status(401).end(...)) of line 142
VerifyCatch ==
  /\ pc = "verifyCatch"
  /\ ran' = ran \cup {"verifyCatch"}
  /\ res' = SessionExpired(res)
  /\ pc' = "done"
  /\ outcome' = "returned"
  /\ UNCHANGED <<env, clock, req, svc, local>>

----------------------------------------------------------------------------
\* return res.status(304).end() for any other method: line 147.
HandleOther ==
  /\ pc = "handle"
  /\ req.method \notin {"GET", "POST", "PATCH"}
  /\ Reject304
  /\ UNCHANGED <<env, clock, req, svc, local, ran>>

Next ==
  \/ Tick
  \/ Receive
  \/ HandleGet
  \/ FetchResolves
  \/ FetchRejects
  \/ GetThen
  \/ GetCatch
  \/ HandlePost
  \/ PostStamp
  \/ CreateResolves
  \/ CreateRejects
  \/ PostThen
  \/ PostCatch
  \/ HandlePatch
  \/ VerifyResolves
  \/ VerifyRejects
  \/ VerifyThen
  \/ UpdateResolves
  \/ UpdateRejects
  \/ UpdateThen
  \/ UpdateCatch
  \/ VerifyCatch
  \/ HandleOther

Spec == Init /\ [][Next]_vars

----------------------------------------------------------------------------
(* Properties. *)

Awaiting == pc \in {"awaitFetch", "awaitCreate", "awaitVerify", "awaitUpdate"}

Answered(code, body) ==
  /\ res.statusCode = code
  /\ res.body = body
  /\ res.sent = 1

PatchPastCheck ==
  /\ req.method = "PATCH"
  /\ req.body.tenant # Undef
  /\ req.body.tenant.id \notin {Undef, Str(""), Num(0)}
  /\ req.body.tenant.slug \notin {Undef, Str("")}
  /\ pc # "handle"

\* C1: in a PATCH past the field-presence check, api.update is called only
\* once sessionApi.verify has resolved with a uid equal to tenant.id; when it
\* resolves with another uid, api.update is never called and the answer is
\* 403 without a body.
C1_UpdateOnlyByOwner ==
  /\ svc["update"].n > 0 =>
       /\ PatchPastCheck
       /\ svc["verify"].state = "fulfilled"
       /\ svc["verify"].value.uid = req.body.tenant.id
  /\ (PatchPastCheck /\ svc["verify"].state = "fulfilled"
        /\ svc["verify"].value.uid # req.body.tenant.id) =>
       /\ svc["update"].n = 0
       /\ pc \in {"verifyThen", "done"}
       /\ pc = "done" => Answered(Num(403), Undef)

C1_Witness ==
  /\ PatchPastCheck
  /\ svc["verify"].state = "fulfilled"
  /\ svc["verify"].value.uid # req.body.tenant.id
  /\ pc = "done"
  /\ Answered(Num(403), Undef)

\* C2: in a PATCH past the field-presence check, when sessionApi.verify
\* rejects, api.update is never called and the answer is 401 with the fixed
\* message about the expired session.
C2_ExpiredSession401 ==
  (PatchPastCheck /\ svc["verify"].state = "rejected") =>
    /\ svc["update"].n = 0
    /\ pc \in {"verifyCatch", "done"}
    /\ pc = "done" =>
         Answered(Num(401), Str("La sesión expiró, volvé a iniciar sesión para continuar"))

C2_Witness ==
  /\ PatchPastCheck
  /\ svc["verify"].state = "rejected"
  /\ pc = "done"
  /\ res.statusCode = Num(401)

\* C3: in a PATCH whose verified uid equals tenant.id, once the handler is
\* done: if api.update resolved the answer is 200 with the tenant of the
\* request as its body (id included, neither the cast patch nor a result of
\* the store); if api.update rejected the answer is 400 with the fixed
\* message about the failed update.
C3_UpdateAnswer ==
  (PatchPastCheck /\ pc = "done" /\ svc["verify"].state = "fulfilled"
     /\ svc["verify"].value.uid = req.body.tenant.id) =>
    /\ svc["update"].state = "fulfilled" =>
         /\ Answered(Num(200), req.body.tenant)
         /\ res.body.id = req.body.tenant.id
         /\ res.body # svc["update"].arg.patch
         /\ res.body # svc["update"].value
    /\ svc["update"].state = "rejected" =>
         Answered(Num(400), Str("Hubo un error actualizando la tienda"))

C3_Witness ==
  /\ PatchPastCheck
  /\ pc = "done"
  /\ svc["update"].state = "fulfilled"
  /\ res.statusCode = Num(200)
  /\ res.body = req.body.tenant

\* C4: a GET whose secret differs from the configured SECRET is answered 304
\* with an empty body and api.fetch is never called for it.
C4_GetWrongSecret304 ==
  (req.method = "GET" /\ req.query.secret # env /\ pc # "handle") =>
    /\ svc["fetch"].n = 0
    /\ pc = "done"
    /\ Answered(Num(304), Undef)

C4_Witness ==
  /\ req.method = "GET"
  /\ req.query.secret = Str("wrong")
  /\ env = Str("s3cr3t")
  /\ pc = "done"
  /\ res.statusCode = Num(304)

\* C5: a POST in which email, password, slug or secret is missing or empty,
\* or whose secret differs from the configured SECRET, or whose draft tenant
\* fails the validation against the server fetch schema, is answered 304 and
\* api.create is never called for it.
C5_PostRejected304 ==
  (req.method = "POST" /\ pc # "handle"
     /\ \/ req.body.email \in {Undef, Str("")}
        \/ req.body.password \in {Undef, Str("")}
        \/ req.query.slug \in {Undef, Str("")}
        \/ req.body.secret \in {Undef, Str("")}
        \/ req.body.secret # env
        \/ local.valid = "invalid") =>
    /\ svc["create"].n = 0
    /\ pc = "done"
    /\ Answered(Num(304), Undef)

C5_Witness ==
  /\ req.method = "POST"
  /\ req.body.secret = Str("")
  /\ env = Str("")
  /\ req.body.email = Str("a@b.c")
  /\ req.body.password = Str("pw")
  /\ req.query.slug = Str("shop")
  /\ pc = "done"
  /\ res.statusCode = Num(304)

\* C6: a GET that carries no secret is answered 304 and api.fetch is never
\* called for it, whatever SECRET is, also when SECRET is not configured.
C6_GetNoSecret304 ==
  (req.method = "GET" /\ req.query.secret = Undef /\ pc # "handle") =>
    /\ svc["fetch"].n = 0
    /\ pc = "done"
    /\ Answered(Num(304), Undef)

\* C7: whenever the failure branch of a GET or a POST runs, the store has
\* rejected and the status and the body of the answer are the status and the
\* statusText the store reported; no other failure goes through that branch.
C7_FailureBranchIsStoreError ==
  /\ ("getCatch" \in ran) =>
       /\ svc["fetch"].state = "rejected"
       /\ res.statusCode = svc["fetch"].value.status
       /\ res.body = svc["fetch"].value.statusText
  /\ ("postCatch" \in ran) =>
       /\ svc["create"].state = "rejected"
       /\ res.statusCode = svc["create"].value.status
       /\ res.body = svc["create"].value.statusText

\* C8: the tenant passed to api.create has tier "commercial", createdAt the
\* current time and tierUntil exactly seven days after createdAt; when
\* api.create resolves the answer is 200 with {success: true}.
C8_TrialIsExactlyOneWeek ==
  /\ svc["create"].n > 0 =>
       /\ svc["create"].arg.tenant.tier = "commercial"
       /\ svc["create"].arg.tenant.tierUntil = svc["create"].arg.tenant.createdAt + Week
  /\ (pc = "done" /\ svc["create"].state = "fulfilled") =>
       Answered(Num(200), [success |-> TRUE])

\* C9: for every request the handler sends at most one response and calls
\* each downstream operation at most once; while a downstream call is
\* pending nothing has been sent; once every call it made has settled and
\* the handler is done, exactly one response has been sent.
C9_ExactlyOneResponse ==
  /\ res.sent <= 1
  /\ \A s \in Services : svc[s].n <= 1
  /\ Awaiting => res.sent = 0
  /\ pc = "done" => res.sent = 1

\* C10: a PATCH is answered 401 only if sessionApi.verify rejected: once it
\* has resolved, no later failure leads to a 401 or to a second response.
C10_401OnlyIfVerifyFailed ==
  /\ (req.method = "PATCH" /\ "verifyCatch" \in ran) => svc["verify"].state = "rejected"
  /\ (req.method = "PATCH" /\ res.statusCode = Num(401)) => svc["verify"].state = "rejected"
  /\ res.sent <= 1
====
